---- MODULE Spec2Model ----
(***************************************************************************)
(* Model of the MyDHT11 driver (Firmware/DEMO_FINAL_PFC/MyDHT11.cpp and    *)
(* MyDHT11/MyDHT11.h): the constructor, read() statement by statement, and *)
(* the two getters.  The platform (pin register, digitalRead, micros,      *)
(* Serial) is the environment: every digitalRead may return either level,  *)
(* the sensor's frame and the high time of each bit are drawn from small   *)
(* sets.  A polling loop is executed in runs: one step is either the poll  *)
(* that leaves the loop or a run of k consecutive polls that stay in it.   *)
(***************************************************************************)
EXTENDS Integers, Sequences, FiniteSets, TLC

\* ---------------------------------------------------------------- bounds
\* Number of sensor frames (taken from FrameList) the environment may send.
MaxFrames == 6

\* ------------------------------------------------------ program constants
AckLowBudget == 10000
AckHighBudget == 30000
BitBudget == 10000
NumBits == 40
BitThreshold == 50
CntStart == 7
ChecksumMask == 255
StartLowMs == 18
StartHighUs == 40

\* Widths of the platform's integer types: uint8_t, unsigned int, and the
\* 16-bit half of a 32-bit unsigned long.
ByteMod == 256
UIntMod == 65536
HalfMod == 65536

\* A 32-bit unsigned long as its two 16-bit halves.
ULong(hi, lo) == [hi |-> hi, lo |-> lo]

ToULong(n) == ULong((n \div HalfMod) % HalfMod, n % HalfMod)

\* a + b and a - b modulo 2^32.
ULongAdd(a, b) ==
    LET lo == a.lo + b.lo IN
      ULong((a.hi + b.hi + (lo \div HalfMod)) % HalfMod, lo % HalfMod)

ULongSub(a, b) ==
    LET lo == a.lo - b.lo IN
      ULong((a.hi - b.hi - (IF lo < 0 THEN 1 ELSE 0)) % HalfMod, lo % HalfMod)

\* a > n for a small non-negative int n.
ULongGreater(a, n) == a.hi > 0 \/ a.lo > n

\* -------------------------------------------------------------- environment
Pins == {2, 4}
Levels == {"LOW", "HIGH"}

\* Candidate frames of the sensor, bytes 0..4 in transmission order.
FrameList ==
    << <<60, 0, 25, 0, 85>>,
       <<60, 0, 25, 0, 99>>,
       <<1, 0, 0, 0, 1>>,
       <<255, 255, 255, 255, 254>>,
       <<200, 7, 100, 9, 44>>,
       <<60, 5, 25, 3, 85>>,
       <<0, 0, 0, 0, 0>> >>

Min(a, b) == IF a < b THEN a ELSE b

Frames == { [k \in 0..4 |-> FrameList[n][k + 1]] : n \in 1..Min(MaxFrames, Len(FrameList)) }

\* Bit n (0..39) of a frame as the sensor transmits it: most significant
\* bit of byte 0 first.
FrameBit(f, n) == (f[n \div 8] \div (2 ^ (7 - (n % 8)))) % 2

\* High times (microseconds) the sensor may hold the line for a 0 and a 1.
HighTimes(b) == IF b = 1 THEN {51, 70} ELSE {26, 50}

\* Values the free-running microsecond counter may show at line 60.
StartTimes == {ULong(0, 1000), ULong(HalfMod - 1, HalfMod - 30)}

\* Lengths of runs of consecutive polls that read the waited-on level.
Runs == {5000, 10000, 10001, 30000, 30001}

\* ------------------------------------------------------------- arithmetic
RECURSIVE BitOr(_, _)
BitOr(a, b) ==
    IF a = 0 THEN b
    ELSE IF b = 0 THEN a
    ELSE (IF (a % 2) + (b % 2) > 0 THEN 1 ELSE 0) + 2 * BitOr(a \div 2, b \div 2)

RECURSIVE BitAnd(_, _)
BitAnd(a, b) ==
    IF a = 0 \/ b = 0 THEN 0
    ELSE (a % 2) * (b % 2) + 2 * BitAnd(a \div 2, b \div 2)

\* Bit n of a byte value.
BitOf(v, n) == (v \div (2 ^ n)) % 2

VARIABLES
    obj,        \* instance id -> [_pin, _temperature, _humidity]
    pinModes,   \* pin -> direction mode set by pinMode
    pinOut,     \* pin -> level last written by digitalWrite
    ctorArg,    \* instance id -> pin identifier passed to the constructor
    w,          \* the running (or last) waitForState call: position, arguments, result
    started,    \* instance id -> read() has been called on it
    self,       \* instance whose read() runs (or ran last)
    pc,         \* position in read(): "idle", or the line about to execute
    bits, cnt, idx, i, loopCnt, t,    \* locals of read(); i and t hold 0 while out of scope
    ret,        \* "none" during a call, else the value returned
    retLine,    \* line of the return statement taken
    serial,     \* what the call wrote to Serial
    io,         \* pin-mode, write and delay calls of the call, in order
    frame,      \* frame the sensor sends during the call
    elapsed,    \* true high time of the bit just measured, -1 otherwise
    polls,      \* digitalRead calls made in the current wait phase
    nbits,      \* bits the call has classified so far
    pre,        \* getHumidity/getTemperature at the call's entry
    prev        \* the previous call's result, with its instance and frame if it succeeded

locals == <<bits, cnt, idx, i, loopCnt, t>>
platform == <<pinModes, pinOut>>
ghost == <<frame, elapsed, polls, nbits, pre, prev>>
vars == <<obj, pinModes, pinOut, ctorArg, w, started, self, pc, bits, cnt, idx, i, loopCnt, t,
          ret, retLine, serial, io, frame, elapsed, polls, nbits, pre, prev>>

\* ---------------------------------------------------------------- getters
getTemperature(o) == o._temperature

getHumidity(o) == o._humidity

\* ------------------------------------------------------------ constructor
\* Constructor that leaves the pin's mode alone.
MyDHT11_noPinMode(pin) ==
    [fields |-> [_pin |-> pin, _temperature |-> 0, _humidity |-> 0],
     mode |-> "UNCONFIGURED"]

\* MyDHT11::MyDHT11(pin): the fields and the mode given to the pin.
MyDHT11(pin) ==
    [fields |-> [_pin |-> pin, _temperature |-> 0, _humidity |-> 0],
     mode |-> "INPUT"]

ZeroBits == [k \in 0..4 |-> 0]

NoTime == ULong(0, 0)

NoPrev == [self |-> 0, frame |-> ZeroBits, ret |-> "none"]

\* No waitForState call on the stack.
NoWait ==
    [pc |-> "idle", self |-> 0, state |-> "NONE", timeout |-> 0, startTime |-> NoTime,
     el |-> 0, last |-> "NONE", ret |-> "none", snap |-> <<>>]

InitFor(ids, pinOf) ==
    /\ ctorArg = pinOf
    /\ w = NoWait
    /\ obj = [n \in ids |-> MyDHT11(pinOf[n]).fields]
    /\ pinModes = [p \in Pins |->
                     IF \E n \in ids : pinOf[n] = p
                     THEN MyDHT11(p).mode ELSE "UNCONFIGURED"]
    /\ pinOut = [p \in Pins |-> "NONE"]
    /\ started = [n \in ids |-> FALSE]
    /\ self = CHOOSE n \in ids : TRUE
    /\ pc = "idle"
    /\ bits = ZeroBits /\ cnt = 0 /\ idx = 0 /\ i = 0 /\ loopCnt = 0 /\ t = NoTime
    /\ ret = "none" /\ retLine = 0
    /\ serial = <<>> /\ io = <<>>
    /\ frame = ZeroBits /\ elapsed = -1 /\ polls = 0 /\ nbits = 0
    /\ pre = [h |-> 0, t |-> 0]
    /\ prev = NoPrev

\* One driver, constructed on any pin.
Init == \E p \in Pins : InitFor({1}, [n \in {1} |-> p])

\* One driver on one pin.
InitOnePin == InitFor({1}, [n \in {1} |-> 4])

\* ------------------------------------------------------------------ read()
InRead == pc # "idle"

\* A return statement; the loop's locals i and t go out of scope.
Return(val, line) ==
    /\ pc' = "idle"
    /\ ret' = val
    /\ retLine' = line
    /\ i' = 0
    /\ t' = NoTime

\* The buffer kept from one call to the next (a static array).
DeclareLocals_staticBits ==
    /\ cnt' = CntStart
    /\ idx' = 0
    /\ UNCHANGED bits

\* Lines 31-33: the locals every call starts from.
DeclareLocals ==
    /\ bits' = ZeroBits
    /\ cnt' = CntStart
    /\ idx' = 0

\* Entry of read() on instance n (lines 30-33).  The sensor's frame for the
\* call is chosen here, among fs; pre and prev record the caller's view at
\* entry.
CallWith(n, fs) ==
    /\ pc = "idle"
    /\ self' = n
    /\ started' = [started EXCEPT ![n] = TRUE]
    /\ DeclareLocals
    /\ pc' = "L36"
    /\ ret' = "none" /\ retLine' = 0
    /\ serial' = <<>> /\ io' = <<>>
    /\ frame' \in fs
    /\ elapsed' = -1 /\ polls' = 0 /\ nbits' = 0
    /\ pre' = [h |-> getHumidity(obj[n]), t |-> getTemperature(obj[n])]
    /\ prev' = IF ret = "true"
               THEN [self |-> self, frame |-> frame, ret |-> ret]
               ELSE [self |-> 0, frame |-> ZeroBits, ret |-> ret]
    /\ UNCHANGED <<obj, ctorArg, w, platform, i, loopCnt, t>>

Call(n) == CallWith(n, Frames)

IoCall(fn, arg) == [fn |-> fn, arg |-> arg]

\* A statement of the start signal: only the platform, io and pc change.
StartFrame == UNCHANGED <<obj, ctorArg, w, started, self, locals, ret, retLine, serial, ghost>>

\* Line 36 missing: the pin's mode is left as it was.
L36_noOutput ==
    /\ pc = "L36"
    /\ io' = Append(io, IoCall("pinMode", "OUTPUT"))
    /\ pc' = "L37"
    /\ UNCHANGED platform
    /\ StartFrame

\* Line 36: pinMode(_pin, OUTPUT).
L36 ==
    /\ pc = "L36"
    /\ pinModes' = [pinModes EXCEPT ![obj[self]._pin] = "OUTPUT"]
    /\ io' = Append(io, IoCall("pinMode", "OUTPUT"))
    /\ pc' = "L37"
    /\ UNCHANGED pinOut
    /\ StartFrame

\* Line 37: digitalWrite(_pin, LOW).
L37 ==
    /\ pc = "L37"
    /\ pinOut' = [pinOut EXCEPT ![obj[self]._pin] = "LOW"]
    /\ io' = Append(io, IoCall("digitalWrite", "LOW"))
    /\ pc' = "L38"
    /\ UNCHANGED pinModes
    /\ StartFrame

\* Line 38: delay(18).
L38 ==
    /\ pc = "L38"
    /\ io' = Append(io, IoCall("delay", ToString(StartLowMs)))
    /\ pc' = "L39"
    /\ UNCHANGED platform
    /\ StartFrame

\* Line 39: digitalWrite(_pin, HIGH).
L39 ==
    /\ pc = "L39"
    /\ pinOut' = [pinOut EXCEPT ![obj[self]._pin] = "HIGH"]
    /\ io' = Append(io, IoCall("digitalWrite", "HIGH"))
    /\ pc' = "L40"
    /\ UNCHANGED pinModes
    /\ StartFrame

\* Line 40: delayMicroseconds(40).
L40 ==
    /\ pc = "L40"
    /\ io' = Append(io, IoCall("delayMicroseconds", ToString(StartHighUs)))
    /\ pc' = "L41"
    /\ UNCHANGED platform
    /\ StartFrame

\* Line 41 without the pull-up.
L41_plainInput ==
    /\ pc = "L41"
    /\ pinModes' = [pinModes EXCEPT ![obj[self]._pin] = "INPUT"]
    /\ io' = Append(io, IoCall("pinMode", "INPUT"))
    /\ pc' = "L43"
    /\ UNCHANGED pinOut
    /\ StartFrame

\* Line 41: pinMode(_pin, INPUT_PULLUP).
L41 ==
    /\ pc = "L41"
    /\ pinModes' = [pinModes EXCEPT ![obj[self]._pin] = "INPUT_PULLUP"]
    /\ io' = Append(io, IoCall("pinMode", "INPUT_PULLUP"))
    /\ pc' = "L43"
    /\ UNCHANGED pinOut
    /\ StartFrame

\* An assignment "loopCnt = budget" that opens a wait phase.
SetBudget(here, budget, next) ==
    /\ pc = here
    /\ loopCnt' = budget
    /\ polls' = 0
    /\ pc' = next
    /\ UNCHANGED <<obj, ctorArg, w, platform, started, self, bits, cnt, idx, i, t,
                   ret, retLine, serial, io, frame, elapsed, nbits, pre, prev>>

\* Countdown that decrements before it tests (--loopCnt == 0): the return is
\* taken in execution c.
Countdown_preDecrement(c, k) ==
    IF k >= c
    THEN [timeout |-> TRUE, loopCnt |-> 0, polls |-> c]
    ELSE [timeout |-> FALSE, loopCnt |-> c - k, polls |-> k]

\* Countdown whose test never succeeds: the count wraps and goes on.
Countdown_noAbort(c, k) ==
    [timeout |-> FALSE, loopCnt |-> (c - k) % UIntMod, polls |-> k]

\* k consecutive executions of "if (loopCnt-- == 0) return false;" starting
\* from count c: the return is taken in the execution that finds the count
\* at 0, which is execution c + 1; the decrement then wraps.
Countdown(c, k) ==
    IF k > c
    THEN [timeout |-> TRUE, loopCnt |-> (0 - 1) % UIntMod, polls |-> c + 1]
    ELSE [timeout |-> FALSE, loopCnt |-> c - k, polls |-> k]

\* while (digitalRead(_pin) == level) { if (loopCnt-- == 0) return false; }
\* at line `here`, the return at line `line`, the statement after it `next`.
WaitWhile(level, here, line, next) ==
    /\ pc = here
    /\ \E lvl \in Levels :
         IF lvl = level
         THEN \E k \in Runs :
                LET r == Countdown(loopCnt, k) IN
                  /\ loopCnt' = r.loopCnt
                  /\ polls' = polls + r.polls
                  /\ IF r.timeout
                     THEN Return("false", line)
                     ELSE pc' = here /\ UNCHANGED <<ret, retLine, i, t>>
         ELSE /\ polls' = polls + 1
              /\ pc' = next
              /\ UNCHANGED <<loopCnt, ret, retLine, i, t>>
    /\ UNCHANGED <<obj, ctorArg, w, platform, started, self, bits, cnt, idx,
                   serial, io, frame, elapsed, nbits, pre, prev>>

L43 == SetBudget("L43", AckLowBudget, "L44")

\* Line 44 with a retry: an exhausted countdown sends the start signal again.
L44_retry ==
    /\ pc = "L44"
    /\ \E lvl \in Levels :
         IF lvl = "LOW"
         THEN \E k \in Runs :
                LET r == Countdown(loopCnt, k) IN
                  /\ loopCnt' = r.loopCnt
                  /\ polls' = polls + r.polls
                  /\ pc' = IF r.timeout THEN "L36" ELSE "L44"
         ELSE /\ polls' = polls + 1
              /\ pc' = "L48"
              /\ UNCHANGED loopCnt
    /\ UNCHANGED <<obj, ctorArg, w, platform, started, self, bits, cnt, idx, i, t,
                   ret, retLine, serial, io, frame, elapsed, nbits, pre, prev>>

L44 == WaitWhile("LOW", "L44", 45, "L48")

L48 == SetBudget("L48", AckHighBudget, "L49")

L49 == WaitWhile("HIGH", "L49", 50, "L53")

\* Line 54, the loop's initialisation: int i = 0.
L53 ==
    /\ pc = "L53"
    /\ i' = 0
    /\ pc' = "L54"
    /\ UNCHANGED <<obj, ctorArg, w, platform, started, self, bits, cnt, idx, loopCnt, t,
                   ret, retLine, serial, io, ghost>>

\* The loop's test one short: i < 39.
L54_oneShort ==
    /\ pc = "L54"
    /\ pc' = IF i < NumBits - 1 THEN "L55" ELSE "L77"
    /\ UNCHANGED <<obj, ctorArg, w, platform, started, self, locals,
                   ret, retLine, serial, io, ghost>>

\* Line 54, the loop's test: i < 40.
L54 ==
    /\ pc = "L54"
    /\ pc' = IF i < NumBits THEN "L55" ELSE "L77"
    /\ UNCHANGED <<obj, ctorArg, w, platform, started, self, locals,
                   ret, retLine, serial, io, ghost>>

L55 == SetBudget("L55", BitBudget, "L56")

L56 == WaitWhile("LOW", "L56", 57, "L60")

\* Line 60 with the countdown set again before the high wait.
L60_resetBudget ==
    /\ pc = "L60"
    /\ t' \in StartTimes
    /\ loopCnt' = BitBudget
    /\ pc' = "L61"
    /\ UNCHANGED <<obj, ctorArg, w, platform, started, self, bits, cnt, idx, i,
                   ret, retLine, serial, io, ghost>>

\* Line 60: unsigned long t = micros().
L60 ==
    /\ pc = "L60"
    /\ t' \in StartTimes
    /\ pc' = "L61"
    /\ UNCHANGED <<obj, ctorArg, w, platform, started, self, bits, cnt, idx, i, loopCnt,
                   ret, retLine, serial, io, ghost>>

L61 == WaitWhile("HIGH", "L61", 62, "L65")

\* The difference clamped at 0 when the counter reads less than t, as a
\* signed or saturating subtraction would give.
ElapsedMicros_clamped(now, t0) ==
    IF now.hi < t0.hi \/ (now.hi = t0.hi /\ now.lo < t0.lo)
    THEN NoTime
    ELSE ULongSub(now, t0)

\* micros() - t in unsigned long arithmetic.
ElapsedMicros(now, t0) == ULongSub(now, t0)

\* The test with >= in place of >.
IsOne_atLeast(now, t0) == ULongGreater(ElapsedMicros(now, t0), BitThreshold - 1)

\* Line 65: the test that classifies the bit.
IsOne(now, t0) == ULongGreater(ElapsedMicros(now, t0), BitThreshold)

\* The bit stored least-significant first.
SetBit_lsbFirst(b, ix, c) == [b EXCEPT ![ix] = BitOr(@, 2 ^ (CntStart - c)) % ByteMod]

\* Line 66: bits[idx] |= (1 << cnt), stored back into a uint8_t.
SetBit(b, ix, c) == [b EXCEPT ![ix] = BitOr(@, 2 ^ c) % ByteMod]

\* Lines 65-67.  The line has been high for d microseconds since line 60,
\* so micros() now shows t + d modulo the counter's width.
L65 ==
    /\ pc = "L65"
    /\ \E d \in HighTimes(FrameBit(frame, i)) :
         LET now == ULongAdd(t, ToULong(d)) IN
           /\ elapsed' = d
           /\ nbits' = nbits + 1
           /\ bits' = IF IsOne(now, t) THEN SetBit(bits, idx, cnt) ELSE bits
    /\ pc' = "L69"
    /\ UNCHANGED <<obj, ctorArg, w, platform, started, self, cnt, idx, i, loopCnt, t,
                   ret, retLine, serial, io, frame, polls, pre, prev>>

\* The position reset without idx++.
NextPos_noAdvance(c, ix) ==
    IF c = 0
    THEN [cnt |-> CntStart, idx |-> ix]
    ELSE [cnt |-> c - 1, idx |-> ix]

\* Lines 69-74: the next bit position.
NextPos(c, ix) ==
    IF c = 0
    THEN [cnt |-> CntStart, idx |-> (ix + 1) % ByteMod]
    ELSE [cnt |-> c - 1, idx |-> ix]

\* L69 with each reading stored as soon as its byte is complete.
L69_eager ==
    /\ pc = "L69"
    /\ cnt' = NextPos(cnt, idx).cnt
    /\ idx' = NextPos(cnt, idx).idx
    /\ i' = i + 1
    /\ elapsed' = -1
    /\ t' = NoTime
    /\ pc' = "L54"
    /\ obj' = IF cnt = 0 /\ idx = 0 THEN [obj EXCEPT ![self]._humidity = bits[0]]
              ELSE IF cnt = 0 /\ idx = 2 THEN [obj EXCEPT ![self]._temperature = bits[2]]
              ELSE obj
    /\ UNCHANGED <<ctorArg, w, platform, started, self, bits, loopCnt,
                   ret, retLine, serial, io, frame, polls, nbits, pre, prev>>

\* Lines 69-74, then i++ of line 54.
L69 ==
    /\ pc = "L69"
    /\ cnt' = NextPos(cnt, idx).cnt
    /\ idx' = NextPos(cnt, idx).idx
    /\ i' = i + 1
    /\ elapsed' = -1
    /\ t' = NoTime
    /\ pc' = "L54"
    /\ UNCHANGED <<obj, ctorArg, w, platform, started, self, bits, loopCnt,
                   ret, retLine, serial, io, frame, polls, nbits, pre, prev>>

\* Line 77 with _humidity shared by all instances (a static member).
L77_allInstances ==
    /\ pc = "L77"
    /\ obj' = [n \in DOMAIN obj |-> [obj[n] EXCEPT !._humidity = bits[0]]]
    /\ pc' = "L78"
    /\ UNCHANGED <<ctorArg, w, platform, started, self, locals, ret, retLine, serial, io, ghost>>

\* Line 77: _humidity = bits[0].
L77 ==
    /\ pc = "L77"
    /\ obj' = [obj EXCEPT ![self]._humidity = bits[0]]
    /\ pc' = "L78"
    /\ UNCHANGED <<ctorArg, w, platform, started, self, locals, ret, retLine, serial, io, ghost>>

\* Line 78: _temperature = bits[2].
L78 ==
    /\ pc = "L78"
    /\ obj' = [obj EXCEPT ![self]._temperature = bits[2]]
    /\ pc' = "L81"
    /\ UNCHANGED <<ctorArg, w, platform, started, self, locals, ret, retLine, serial, io, ghost>>

\* Checksum without the mask: the sum as an int.
Checksum_noMask(b) == b[0] + b[2]

\* Checksum with the two fractional bytes added in.
Checksum_allBytes(b) == BitAnd(b[0] + b[1] + b[2] + b[3], ChecksumMask)

\* (bits[0] + bits[2]) & 0xFF
Checksum(b) == BitAnd(b[0] + b[2], ChecksumMask)

\* Line 81: the checksum test; line 82 returns true.
L81 ==
    /\ pc = "L81"
    /\ IF bits[4] = Checksum(bits)
       THEN Return("true", 82)
       ELSE pc' = "L84" /\ UNCHANGED <<ret, retLine, i, t>>
    /\ UNCHANGED <<obj, ctorArg, w, platform, started, self, bits, cnt, idx, loopCnt,
                   serial, io, ghost>>

PrintText(fn, text) == [fn |-> fn, text |-> text, num |-> -1]

PrintNum(fn, num) == [fn |-> fn, text |-> "", num |-> num]

\* One Serial call of lines 84-88.
SerialStep(here, item, next) ==
    /\ pc = here
    /\ serial' = Append(serial, item)
    /\ pc' = next
    /\ UNCHANGED <<obj, ctorArg, w, platform, started, self, locals, ret, retLine, io, ghost>>

L84 == SerialStep("L84", PrintText("println", "Checksum validation failed."), "L85")

L85 == SerialStep("L85", PrintText("print", "Calculated checksum: "), "L86")

L86 == SerialStep("L86", PrintNum("println", Checksum(bits)), "L87")

L87 == SerialStep("L87", PrintText("print", "Received checksum: "), "L88")

\* Line 88 printing the calculated value a second time.
L88_calculated == SerialStep("L88", PrintNum("println", Checksum(bits)), "L89")

L88 == SerialStep("L88", PrintNum("println", bits[4]), "L89")

\* Line 89: return false.
L89 ==
    /\ pc = "L89"
    /\ Return("false", 89)
    /\ UNCHANGED <<obj, ctorArg, w, platform, started, self, bits, cnt, idx, loopCnt,
                   serial, io, ghost>>

\* Every statement of a running read().
ReadStep ==
    \/ L36 \/ L37 \/ L38 \/ L39 \/ L40 \/ L41
    \/ L43 \/ L44 \/ L48 \/ L49
    \/ L53 \/ L54 \/ L55 \/ L56 \/ L60 \/ L61 \/ L65 \/ L69
    \/ L77 \/ L78 \/ L81
    \/ L84 \/ L85 \/ L86 \/ L87 \/ L88 \/ L89

Next ==
    \/ \E n \in DOMAIN obj : Call(n)
    \/ ReadStep

Spec == Init /\ [][Next]_vars

\* Two drivers on two different pins; whole read() calls interleave.
InitTwo == InitFor({1, 2}, [n \in {1, 2} |-> IF n = 1 THEN 2 ELSE 4])

\* The first three frames of FrameList: valid, mismatching, valid.
FewFrames == { [k \in 0..4 |-> FrameList[n][k + 1]] : n \in 1..3 }

NextTwo ==
    \/ \E n \in DOMAIN obj : CallWith(n, FewFrames)
    \/ ReadStep

SpecTwo == InitTwo /\ [][NextTwo]_vars

\* ------------------------------------------------------------ waitForState
\* Everything but w.
readVars == <<obj, pinModes, pinOut, ctorArg, started, self, pc, bits, cnt, idx, i, loopCnt, t,
              ret, retLine, serial, io, frame, elapsed, polls, nbits, pre, prev>>

\* Timeouts (microseconds) a caller may pass, and the advances of the
\* microsecond counter between two of the helper's readings.
WaitTimeouts == {0, 50}

TimeSteps == {25, 26, 100}

\* Entry of waitForState(state, timeout) on instance n, and line 121:
\* startTime = micros().  w.el is the true time since then, w.snap the
\* driver and pin state at entry.
WaitForStateCall(n, state, timeout) ==
    /\ pc = "idle"
    /\ w.pc = "idle"
    /\ \E st \in StartTimes :
         w' = [pc |-> "W122", self |-> n, state |-> state, timeout |-> timeout,
               startTime |-> st, el |-> 0, last |-> "NONE", ret |-> "none",
               snap |-> <<obj, pinModes, pinOut>>]
    /\ UNCHANGED readVars

\* Line 122: while (digitalRead(_pin) != state); line 127: return true.
W122 ==
    /\ w.pc = "W122"
    /\ \E lvl \in Levels :
         w' = IF lvl # w.state
              THEN [w EXCEPT !.pc = "W123", !.last = lvl]
              ELSE [w EXCEPT !.pc = "done", !.last = lvl, !.ret = "true"]
    /\ UNCHANGED readVars

\* micros() - startTime > timeout
TimedOut(now, startTime, timeout) == ULongGreater(ULongSub(now, startTime), timeout)

\* The test with >= in place of >.
W123_atLeast ==
    /\ w.pc = "W123"
    /\ \E d \in TimeSteps :
         LET now == ULongAdd(w.startTime, ToULong(w.el + d)) IN
           w' = IF TimedOut(now, w.startTime, w.timeout - 1)
                THEN [w EXCEPT !.pc = "done", !.el = w.el + d, !.ret = "false"]
                ELSE [w EXCEPT !.pc = "W122", !.el = w.el + d]
    /\ UNCHANGED readVars

\* Lines 123-125: if (micros() - startTime > timeout) return false.  The
\* counter has advanced by d since the helper last read it.
W123 ==
    /\ w.pc = "W123"
    /\ \E d \in TimeSteps :
         LET now == ULongAdd(w.startTime, ToULong(w.el + d)) IN
           w' = IF TimedOut(now, w.startTime, w.timeout)
                THEN [w EXCEPT !.pc = "done", !.el = w.el + d, !.ret = "false"]
                ELSE [w EXCEPT !.pc = "W122", !.el = w.el + d]
    /\ UNCHANGED readVars

\* The caller takes the result and the helper's frame is gone.
WaitReturn ==
    /\ w.pc = "done"
    /\ w' = NoWait
    /\ UNCHANGED readVars

\* One driver whose helper is called, between read() calls, by some member
\* function with any level and timeout.
NextWait ==
    \/ w.pc = "idle" /\ \E n \in DOMAIN obj : CallWith(n, FewFrames)
    \/ ReadStep
    \/ \E n \in DOMAIN obj : \E lvl \in Levels : \E to \in WaitTimeouts :
         WaitForStateCall(n, lvl, to)
    \/ W122
    \/ W123
    \/ WaitReturn

SpecWait == InitOnePin /\ [][NextWait]_vars

\* read() runs on a single thread that is never suspended for good.
FairSpec == InitOnePin /\ [][Next]_vars /\ WF_vars(ReadStep)

\* ================================================================= claims
Returned == pc = "idle" /\ ret # "none"

TimeoutLines == {45, 50, 57, 62}

Humidity == getHumidity(obj[self])

Temperature == getTemperature(obj[self])

\* The frame's checksum byte matches its two integer bytes.
FrameValid(f) == f[4] = (f[0] + f[2]) % 256

\* C1: a read() that decodes a full frame whose byte 4 differs from
\* (byte0 + byte2) & 0xFF returns false and leaves getHumidity() and
\* getTemperature() as they were before the call.
C1_MismatchKeepsReadings ==
    (Returned /\ nbits = NumBits /\ bits[4] # (bits[0] + bits[2]) % 256)
        => /\ ret = "false"
           /\ Humidity = pre.h
           /\ Temperature = pre.t

\* C2: a read() that ends on an exhausted countdown (lines 45, 50, 57, 62)
\* returns false and leaves getHumidity() and getTemperature() as they were
\* before the call, however many bits were decoded.
C2_TimeoutKeepsReadings ==
    (Returned /\ retLine \in TimeoutLines)
        => /\ ret = "false"
           /\ Humidity = pre.h
           /\ Temperature = pre.t

\* A bit timeout after two bytes were decoded, with cached readings that
\* differ from the bytes decoded.
C2_Witness ==
    /\ Returned /\ retLine = 62
    /\ nbits >= 16
    /\ pre.h = 60 /\ pre.t = 25
    /\ bits[0] = 255

\* C3: read() returns true exactly when both acknowledgment phases and all
\* 40 bits completed and decoded byte 4 equals (byte0 + byte2) & 0xFF; then
\* getHumidity() is decoded byte 0 and getTemperature() decoded byte 2, both
\* in 0..255; the frame [60,0,25,0,85] gives true, 60, 25.
C3_TrueIffValidFrame ==
    Returned =>
        /\ (ret = "true") <=> (nbits = NumBits /\ retLine \notin TimeoutLines
                               /\ bits[4] = (bits[0] + bits[2]) % 256)
        /\ ret = "true" => /\ Humidity = bits[0] /\ Humidity \in 0..255
                           /\ Temperature = bits[2] /\ Temperature \in 0..255
        /\ (nbits = NumBits /\ frame = [k \in 0..4 |-> <<60, 0, 25, 0, 85>>[k + 1]])
              => ret = "true" /\ Humidity = 60 /\ Temperature = 25

C3_Witness ==
    /\ Returned /\ ret = "true"
    /\ frame[0] = 255 /\ frame[4] = 254
    /\ Humidity = 255 /\ Temperature = 255
    /\ pre.h = 60

\* Polls a wait phase can make: every poll but the one that leaves the loop
\* (or takes the return) decrements the countdown.
PollsBounded ==
    /\ (pc \in {"L44", "L48"} \/ (Returned /\ retLine = 45)) => polls <= AckLowBudget + 1
    /\ (pc \in {"L49", "L53"} \/ (Returned /\ retLine = 50)) => polls <= AckHighBudget + 1
    /\ (pc \in {"L56", "L60", "L61", "L65", "L69"} \/ (Returned /\ retLine \in {57, 62}))
          => polls <= BitBudget + 2

\* C4: every read() call returns, whatever levels the pin shows, and the
\* polls of each wait phase are bounded by the phase's budget (at most the
\* budget plus one in an acknowledgment phase, plus two in a bit).
C4_ReadTerminates == [](PollsBounded) /\ (InRead ~> Returned)

\* A call that polled the acknowledgment high phase to exhaustion.
C4_Witness == Returned /\ retLine = 50 /\ polls = AckHighBudget + 1

\* C5: after construction and before any read(), both getters return 0, the
\* stored pin is the constructor's argument and the pin is a plain input.
C5_ConstructionDefaults ==
    \A n \in DOMAIN obj :
        ~started[n] =>
            /\ getTemperature(obj[n]) = 0
            /\ getHumidity(obj[n]) = 0
            /\ obj[n]._pin = ctorArg[n]
            /\ pinModes[ctorArg[n]] = "INPUT"

C5_Witness == ~started[1] /\ pc = "idle" /\ ctorArg[1] = 4

\* C6: the bit just stored is 1 exactly when the high time between the two
\* timestamps is strictly greater than 50 microseconds: 50 gives 0, 51
\* gives 1.
C6_BitIsOneAbove50 ==
    pc = "L69" =>
        /\ elapsed >= 0
        /\ (BitOf(bits[idx], cnt) = 1) <=> (elapsed > 50)

\* A high time of exactly 50 measured across the counter's wrap.
C6_Witness ==
    /\ pc = "L69" /\ elapsed = 50
    /\ BitOf(bits[idx], cnt) = 0
    /\ t.hi = HalfMod - 1

\* C7: after n bits, bit (7 - j) of byte k is bit 8k + j of the stream for
\* every position below n and 0 above it; the stream of [1,0,0,0,1] is read
\* successfully with getHumidity() = 1 and getTemperature() = 0.
C7_MsbFirstPacking ==
    /\ \A k \in 0..4 : \A j \in 0..7 :
         BitOf(bits[k], 7 - j) = IF 8 * k + j < nbits THEN FrameBit(frame, 8 * k + j) ELSE 0
    /\ (Returned /\ nbits = NumBits /\ frame = [k \in 0..4 |-> <<1, 0, 0, 0, 1>>[k + 1]])
          => ret = "true" /\ Humidity = 1 /\ Temperature = 0

C7_Witness ==
    /\ Returned /\ ret = "true"
    /\ frame = [k \in 0..4 |-> <<1, 0, 0, 0, 1>>[k + 1]]
    /\ Humidity = 1 /\ Temperature = 0
    /\ pre.h = 60

\* C8: the outcome of a call whose signal completes depends on the signal
\* alone, not on what earlier calls left behind; two calls in succession
\* with the same valid signal both return true and the readings after the
\* second are those after the first.
C8_RepeatableRead ==
    (Returned /\ nbits = NumBits) =>
        /\ bits = frame
        /\ (ret = "true") <=> FrameValid(frame)
        /\ (prev.ret = "true" /\ prev.frame = frame /\ prev.self = self)
              => ret = "true" /\ Humidity = pre.h /\ Temperature = pre.t

C8_Witness ==
    /\ Returned /\ ret = "true"
    /\ prev.ret = "true" /\ prev.frame = frame /\ prev.self = self
    /\ Humidity = 60 /\ pre.h = 60

\* The five Serial calls of a checksum failure.
MismatchLog(b) ==
    << PrintText("println", "Checksum validation failed."),
       PrintText("print", "Calculated checksum: "),
       PrintNum("println", (b[0] + b[2]) % 256),
       PrintText("print", "Received checksum: "),
       PrintNum("println", b[4]) >>

\* C9: read() writes to Serial exactly when a full frame was decoded and its
\* checksum does not match: the message, the calculated value and the
\* received byte, in that order, all before it returns; nothing is written
\* on success or on a timeout.
C9_LogOnlyOnMismatch ==
    /\ Returned =>
         serial = IF nbits = NumBits /\ retLine \notin TimeoutLines
                     /\ bits[4] # (bits[0] + bits[2]) % 256
                  THEN MismatchLog(bits) ELSE <<>>
    /\ (InRead /\ pc \notin {"L85", "L86", "L87", "L88", "L89"}) => serial = <<>>
    /\ (Returned /\ frame = [k \in 0..4 |-> <<60, 0, 25, 0, 99>>[k + 1]] /\ nbits = NumBits)
          => Len(serial) = 5 /\ serial[3].num = 85 /\ serial[5].num = 99

C9_Witness ==
    /\ Returned /\ retLine = 89
    /\ Len(serial) = 5 /\ serial[3].num = 85 /\ serial[5].num = 99

\* C10: after every completed read() the pin's mode is input-with-pull-up;
\* it is plain input only from construction until the first call's
\* pinMode(OUTPUT).
C10_ModeAfterRead ==
    /\ Returned => pinModes[obj[self]._pin] = "INPUT_PULLUP"
    /\ pinModes[obj[self]._pin] = "INPUT"
          => /\ prev.ret = "none" /\ ret = "none"
             /\ pc \in {"idle", "L36"}

C10_Witness ==
    /\ Returned /\ retLine = 57
    /\ pinModes[obj[self]._pin] = "INPUT_PULLUP"

\* The outcome of a completed call as a function of bytes 0, 2 and 4 alone.
OutcomeOf(b0, b2, b4) ==
    [ret |-> IF b4 = (b0 + b2) % 256 THEN "true" ELSE "false", h |-> b0, t |-> b2]

\* C11: the outcome of a completed read() is a function of bytes 0, 2 and 4
\* of the frame: the result and the readings left do not depend on bytes 1
\* and 3; a frame with non-zero fractional bytes is accepted when byte 4 is
\* (byte0 + byte2) & 0xFF, and the sum wraps modulo 256 (200 and 100 need 44).
C11_FractionsIgnored ==
    (Returned /\ nbits = NumBits) =>
        /\ [ret |-> ret, h |-> Humidity, t |-> Temperature]
              = OutcomeOf(frame[0], frame[2], frame[4])
        /\ (prev.ret = "true" /\ prev.self = self
            /\ prev.frame[0] = frame[0] /\ prev.frame[2] = frame[2]
            /\ prev.frame[4] = frame[4])
              => ret = "true" /\ Humidity = pre.h /\ Temperature = pre.t
        /\ (frame[0] = 200 /\ frame[2] = 100) => (ret = "true" <=> frame[4] = 44)

\* [60,5,25,3,85] accepted right after [60,0,25,0,85], with the same readings.
C11_Witness ==
    /\ Returned /\ nbits = NumBits /\ ret = "true"
    /\ prev.ret = "true" /\ prev.frame[1] = 0 /\ prev.frame[3] = 0
    /\ frame[0] = 60 /\ frame[1] = 5 /\ frame[3] = 3
    /\ Humidity = 60 /\ Temperature = 25

\* C12: with two drivers on two different pins, no step of a read() on one
\* instance changes the other instance's pin identifier or readings, and no
\* step at all changes any instance's pin identifier.
C12_InstancesIndependent ==
    [][\A m \in DOMAIN obj :
          /\ obj'[m]._pin = obj[m]._pin
          /\ m # self' => obj'[m] = obj[m]]_vars

\* A failing read on instance 1 after instance 2 read [1,0,0,0,1].
C12_Witness ==
    /\ Returned /\ self = 1 /\ retLine = 89
    /\ ctorArg[1] # ctorArg[2]
    /\ getHumidity(obj[1]) = 60 /\ getTemperature(obj[1]) = 25
    /\ getHumidity(obj[2]) = 1 /\ getTemperature(obj[2]) = 0

\* The countdown of an acknowledgment phase: the budget less the polls that
\* read the waited-on level.
AckCountdown ==
    /\ pc = "L44" => loopCnt = AckLowBudget - polls /\ loopCnt >= 0
    /\ pc = "L49" => loopCnt = AckHighBudget - polls /\ loopCnt >= 0

\* C13 as stated: the countdown starts at the phase's budget and drops by
\* one per poll at the waited-on level, and read() aborts once 10000 (30000)
\* consecutive polls read that level: a call never goes on to the next phase
\* after that many, even if the next poll shows the other level.
C13_AbortsAtBudget ==
    /\ AckCountdown
    /\ pc = "L48" => polls - 1 < AckLowBudget
    /\ pc = "L53" => polls - 1 < AckHighBudget

\* C13 as amended: the countdown starts at the phase's budget and drops by
\* one per poll at the waited-on level; read() returns false on the poll
\* that finds the countdown at 0, which is poll 10001 (30001) at that level;
\* after exactly 10000 (30000) such polls the call goes on if the next poll
\* shows the other level.
C13_AbortsAfterBudget ==
    /\ AckCountdown
    /\ (Returned /\ retLine = 45) => ret = "false" /\ polls = AckLowBudget + 1
    /\ (Returned /\ retLine = 50) => ret = "false" /\ polls = AckHighBudget + 1
    /\ pc = "L48" => polls - 1 <= AckLowBudget
    /\ pc = "L53" => polls - 1 <= AckHighBudget

\* 30000 polls read high, poll 30001 reads low, and the call goes on.
C13_Witness == pc = "L53" /\ polls = AckHighBudget + 1 /\ loopCnt = 0

\* C14: a bit's countdown is set to 10000 once, at the start of its low
\* wait, whatever the previous bit left; the low wait and the high wait
\* draw on it together (it is not set again at line 60), and the bit aborts
\* with false on the poll that finds it at 0: poll 10001 at a waited-on
\* level, low and high polls counted together.
C14_SharedBitBudget ==
    /\ pc = "L56" => loopCnt = BitBudget - polls /\ loopCnt >= 0
    /\ pc \in {"L60", "L61"} => loopCnt = BitBudget - (polls - 1) /\ loopCnt >= 0
    /\ (Returned /\ retLine = 57) => ret = "false" /\ polls = BitBudget + 1
    /\ (Returned /\ retLine = 62) => ret = "false" /\ polls = BitBudget + 2

\* The second bit aborted in its high wait: its low polls, the poll that
\* ended the low wait and its high polls make 10002.
C14_Witness == Returned /\ retLine = 62 /\ polls = BitBudget + 2 /\ nbits = 1

\* Phases of a read() call, by position.
Rank(p) ==
    CASE p = "idle" -> 0
      [] p \in {"L36", "L37", "L38", "L39", "L40", "L41"} -> 1
      [] p \in {"L43", "L44"} -> 2
      [] p \in {"L48", "L49"} -> 3
      [] p \in {"L53", "L54", "L55", "L56", "L60", "L61", "L65", "L69"} -> 4
      [] p \in {"L77", "L78", "L81", "L84", "L85", "L86", "L87", "L88", "L89"} -> 5

\* C15: a call moves through SendingStart (1), AwaitingAckLow (2),
\* AwaitingAckHigh (3), DecodingBits (4), ValidatingChecksum (5) in that
\* order, one phase at a time; bit i is classified when exactly i bits were
\* classified before it; validation starts and Success is returned only
\* with 40 bits decoded; Failed (a false return) comes from phases 2..5,
\* never from SendingStart; a call always starts at SendingStart.
C15_PhaseOrder ==
    [][LET a == Rank(pc)
           b == Rank(pc')
       IN /\ \/ b = a
             \/ a = 0 /\ pc' = "L36"
             \/ a \in 1..4 /\ b = a + 1 /\ (a = 4 => nbits = NumBits)
             \/ a \in 2..5 /\ b = 0 /\ ret' = "false"
             \/ a = 5 /\ b = 0 /\ ret' = "true" /\ nbits = NumBits
          /\ pc = "L65" => i = nbits
          /\ nbits' = IF pc = "L65" THEN nbits + 1 ELSE IF a = 0 THEN 0 ELSE nbits
      ]_vars

\* Failed entered from the DecodingBits step of the last bit.
C15_Witness == Returned /\ ret = "false" /\ retLine = 62 /\ nbits = NumBits - 1

\* The start signal, call by call.
StartSignal ==
    << [fn |-> "pinMode", arg |-> "OUTPUT"],
       [fn |-> "digitalWrite", arg |-> "LOW"],
       [fn |-> "delay", arg |-> "18"],
       [fn |-> "digitalWrite", arg |-> "HIGH"],
       [fn |-> "delayMicroseconds", arg |-> "40"],
       [fn |-> "pinMode", arg |-> "INPUT_PULLUP"] >>

\* Calls of the start signal made when the call stands at p.
StartDone(p) ==
    CASE p = "L36" -> 0
      [] p = "L37" -> 1
      [] p = "L38" -> 2
      [] p = "L39" -> 3
      [] p = "L40" -> 4
      [] p = "L41" -> 5
      [] OTHER -> 6

\* C16: the pin-mode, write and delay calls of a read() are those of one
\* start signal, in order (output, low, 18 ms, high, 40 us, input with
\* pull-up); no poll is made before it is complete, and nothing is added to
\* it later in the call, whichever way the call ends.
C16_OneStartSignal ==
    (InRead \/ Returned) =>
        /\ io = SubSeq(StartSignal, 1, StartDone(pc))
        /\ Rank(pc) = 1 => polls = 0

\* A call that failed in the acknowledgment phase after a failed call.
C16_Witness ==
    /\ Returned /\ retLine = 45 /\ prev.ret = "false"
    /\ io = StartSignal

\* C17: the elapsed time computed at line 65, micros() - t in 32-bit
\* unsigned arithmetic, is the true high time of the bit also when the
\* counter wrapped between the two readings, and the bit is then classified
\* as without a wrap.
C17_WrapTolerant ==
    pc = "L69" =>
        LET now == ULongAdd(t, ULong(0, elapsed)) IN
          /\ ElapsedMicros(now, t) = ULong(0, elapsed)
          /\ (now.hi < t.hi) => ((BitOf(bits[idx], cnt) = 1) <=> (elapsed > 50))

\* A high time of 70 that starts 30 microseconds before the wrap.
C17_Witness ==
    /\ pc = "L69" /\ elapsed = 70
    /\ t = ULong(HalfMod - 1, HalfMod - 30)
    /\ ULongAdd(t, ULong(0, elapsed)) = ULong(0, 40)
    /\ BitOf(bits[idx], cnt) = 1

\* C18: during read() the bit position stays in 0..7 and the byte index in
\* 0..5; bit n is written at byte n \div 8, position 7 - n % 8, so every
\* write has its index in 0..4; the index is 5 only once 40 bits are done,
\* and no write follows.
C18_BufferInBounds ==
    (InRead \/ Returned) =>
        /\ cnt \in 0..7 /\ idx \in 0..5
        /\ LET n == IF pc = "L69" THEN nbits - 1 ELSE nbits
           IN idx = n \div 8 /\ cnt = 7 - (n % 8)
        /\ pc = "L65" => idx \in 0..4 /\ nbits < NumBits
        /\ idx = 5 => /\ nbits = NumBits
                      /\ pc \notin {"L55", "L56", "L60", "L61", "L65", "L69"}

\* After the 40th bit: index 5, position back at 7, the loop left.
C18_Witness == pc = "L77" /\ idx = 5 /\ cnt = 7 /\ nbits = NumBits

\* The pin of the running call.
MyPin == obj[self]._pin

\* C19: the pin is written only while its mode is output, it is polled only
\* while its mode is input-with-pull-up, and no write follows the switch to
\* input-with-pull-up within a call.
C19_NoDriveWhileListening ==
    /\ [](/\ pc \in {"L37", "L39"} => pinModes[MyPin] = "OUTPUT"
          /\ pc \in {"L44", "L49", "L56", "L61"} => pinModes[MyPin] = "INPUT_PULLUP"
          /\ \A k \in 1..Len(io) :
               io[k].fn = "digitalWrite" =>
                   /\ \E j \in 1..(k - 1) : io[j] = [fn |-> "pinMode", arg |-> "OUTPUT"]
                   /\ \A j \in 1..(k - 1) : io[j].arg # "INPUT_PULLUP")
    /\ [][pinOut' # pinOut =>
            /\ pinModes[MyPin] = "OUTPUT" /\ pinModes' = pinModes
            /\ Rank(pc) = 1]_vars

\* The last bit's high wait: the line was last driven high, the pin listens.
C19_Witness ==
    /\ pc = "L61" /\ nbits = NumBits - 1
    /\ pinModes[MyPin] = "INPUT_PULLUP"
    /\ pinOut[MyPin] = "HIGH"

====
